---- MODULE Spec2Model ----
(***************************************************************************)
(* A model of goog.i18n.TimeZone as vendored in WeScheme: the two          *)
(* factories, the daylight-adjustment scan over the flat transition table, *)
(* the offset and daylight predicate, the name lookup and the four string  *)
(* composers.  Strings are TLA+ strings built by concatenation, numbers    *)
(* that JavaScript may turn into undefined or NaN are tagged records.      *)
(***************************************************************************)
EXTENDS Integers, Sequences, FiniteSets, TLC

\* Most warning dialogs followed in one behaviour.
MaxDialogs == 2

\* Longest transition table (a flat array: MaxLen = 4 is two pairs, and the
\* odd lengths are the malformed tables the factory does not reject).
MaxLen == 4

\* ------------------------------------------------------------------------
\* JavaScript values.  A number is Num(n); a read past the end of an array is
\* Undefined; arithmetic on undefined gives NaN; a string is Str(s).
Num(n) == [t |-> "number", v |-> n]

NaN == [t |-> "NaN", v |-> 0]

Undefined == [t |-> "undefined", v |-> 0]

Str(s) == [t |-> "string", v |-> s]

IsNum(x) == x.t = "number"

\* String(x), as Array.prototype.join and string concatenation apply it.
JsString(x) == IF IsNum(x) THEN ToString(x.v) ELSE x.t

\* a - b with a an integer field and b any value: undefined and NaN give NaN.
JsMinus(a, b) == IF IsNum(b) THEN Num(a - b.v) ELSE NaN

\* -x
JsNegate(x) == IF IsNum(x) THEN Num(0 - x.v) ELSE NaN

\* x < 0, x <= 0, x > 0, x == 0: every comparison with NaN or undefined is false.
JsLt0(x) == IsNum(x) /\ x.v < 0

JsLe0(x) == IsNum(x) /\ x.v <= 0

JsGt0(x) == IsNum(x) /\ x.v > 0

JsEq0(x) == IsNum(x) /\ x.v = 0

\* Math.abs(x)
MathAbs(x) == IF IsNum(x) THEN Num(IF x.v < 0 THEN 0 - x.v ELSE x.v) ELSE NaN

\* Math.floor(x / 60) % 100, for x = Math.abs(..) >= 0
HoursField(x) == IF IsNum(x) THEN Num((x.v \div 60) % 100) ELSE NaN

\* x % 60, for x = Math.abs(..) >= 0
MinutesField(x) == IF IsNum(x) THEN Num(x.v % 60) ELSE NaN

\* array[i] of a JavaScript array (0-based) held as a TLA+ sequence (1-based).
ArrayAt(array, i) == IF i >= 0 /\ i < Len(array) THEN Num(array[i + 1]) ELSE Undefined

NameAt(array, i) == IF i >= 0 /\ i < Len(array) THEN Str(array[i + 1]) ELSE Undefined

RECURSIVE Repeat(_, _)
Repeat(s, n) == IF n <= 0 THEN "" ELSE s \o Repeat(s, n - 1)

\* goog.string.padNumber(num, length) without opt_precision: String(num), with
\* zeros in front up to `length` characters before the decimal point.
padNumber(num, length) == Repeat("0", length - Len(JsString(num))) \o JsString(num)

\* ------------------------------------------------------------------------
\* Program constants.
MILLISECONDS_PER_HOUR_ == 3600 * 1000

STD_SHORT_NAME == 0

STD_LONG_NAME == 1

DLT_SHORT_NAME == 2

DLT_LONG_NAME == 3

\* ------------------------------------------------------------------------
\* The string composers.

\* Variant: the sign test written "offset < 0", so that offset 0 prints '-'.
composeGMTString_StrictSign(offset) ==
    LET sign == IF JsLt0(offset) THEN "+" ELSE "-"
        abs == MathAbs(offset)
    IN "GMT" \o sign \o padNumber(HoursField(abs), 2) \o ":"
             \o padNumber(MinutesField(abs), 2)

composeGMTString_(offset) ==
    LET sign == IF JsLe0(offset) THEN "+" ELSE "-"
        abs == MathAbs(offset)
    IN "GMT" \o sign \o padNumber(HoursField(abs), 2) \o ":"
             \o padNumber(MinutesField(abs), 2)

\* Variant: the sign chosen as composeUTCString_ chooses it.
composePosixTimeZoneID_UtcSign(offset) ==
    IF JsEq0(offset) THEN "Etc/GMT"
    ELSE LET sign == IF JsLt0(offset) THEN "+" ELSE "-"
             abs == MathAbs(offset)
             rest == MinutesField(abs)
         IN "Etc/GMT" \o sign \o JsString(HoursField(abs))
              \o (IF ~JsEq0(rest) THEN ":" \o padNumber(rest, 2) ELSE "")

\* Variant: the early return for offset 0 left out.
composePosixTimeZoneID_NoZeroCase(offset) ==
    LET sign == IF JsLt0(offset) THEN "-" ELSE "+"
        abs == MathAbs(offset)
        rest == MinutesField(abs)
    IN "Etc/GMT" \o sign \o JsString(HoursField(abs))
         \o (IF ~JsEq0(rest) THEN ":" \o padNumber(rest, 2) ELSE "")

composePosixTimeZoneID_(offset) ==
    IF JsEq0(offset) THEN "Etc/GMT"
    ELSE LET sign == IF JsLt0(offset) THEN "-" ELSE "+"
             abs == MathAbs(offset)
             rest == MinutesField(abs)
         IN "Etc/GMT" \o sign \o JsString(HoursField(abs))
              \o (IF ~JsEq0(rest) THEN ":" \o padNumber(rest, 2) ELSE "")

\* Variant: the minutes padded as composePosixTimeZoneID_ pads them.
composeUTCString_Padded(offset) ==
    IF JsEq0(offset) THEN "UTC"
    ELSE LET sign == IF JsLt0(offset) THEN "+" ELSE "-"
             abs == MathAbs(offset)
             rest == MinutesField(abs)
         IN "UTC" \o sign \o JsString(HoursField(abs))
              \o (IF ~JsEq0(rest) THEN ":" \o padNumber(rest, 2) ELSE "")

composeUTCString_(offset) ==
    IF JsEq0(offset) THEN "UTC"
    ELSE LET sign == IF JsLt0(offset) THEN "+" ELSE "-"
             abs == MathAbs(offset)
             rest == MinutesField(abs)
         IN "UTC" \o sign \o JsString(HoursField(abs))
              \o (IF ~JsEq0(rest) THEN ":" \o JsString(rest) ELSE "")

\* ------------------------------------------------------------------------
\* The queries, as functions of the object's fields and the Date (held as its
\* milliseconds since the epoch).

\* Variant: the minutes rounded to the nearest minute instead of dropped.
DateUTCToMinuteRounded(date) == ((date + 30000) \div 60000) * 60000

\* Date.UTC(y, m, d, h, min) of the date's own UTC fields: the date with its
\* seconds and milliseconds dropped (the fields are floored, also before 1970).
DateUTCToMinute(date) == (date \div 60000) * 60000

\* Variant: timeInMs compared with the points without the division by
\* MILLISECONDS_PER_HOUR_.
RECURSIVE ScanTransitionsInMs(_, _, _)
ScanTransitionsInMs(transitions, timeInMs, index) ==
    IF index < Len(transitions) /\ timeInMs >= transitions[index + 1]
    THEN ScanTransitionsInMs(transitions, timeInMs, index + 2)
    ELSE index

\* Variant: the loop test written "timeInHours > transitions[index]".
RECURSIVE ScanTransitionsStrict(_, _, _)
ScanTransitionsStrict(transitions, timeInMs, index) ==
    IF index < Len(transitions)
         /\ timeInMs > transitions[index + 1] * MILLISECONDS_PER_HOUR_
    THEN ScanTransitionsStrict(transitions, timeInMs, index + 2)
    ELSE index

\* The while loop of getDaylightAdjustment.  timeInHours is the quotient
\* timeInMs / MILLISECONDS_PER_HOUR_, fractional when the minutes are not 0;
\* timeInHours >= transitions[index] is decided exactly by cross-multiplying.
RECURSIVE ScanTransitions(_, _, _)
ScanTransitions(transitions, timeInMs, index) ==
    IF index < Len(transitions)
         /\ timeInMs >= transitions[index + 1] * MILLISECONDS_PER_HOUR_
    THEN ScanTransitions(transitions, timeInMs, index + 2)
    ELSE index

\* Variant: the element before the adjustment returned (the pair's point).
getDaylightAdjustmentReturnsPoint(transitions, date) ==
    LET timeInMs == DateUTCToMinute(date)
        index == ScanTransitions(transitions, timeInMs, 0)
    IN IF index = 0 THEN Num(0) ELSE ArrayAt(transitions, index - 2)

\* Variant: the loop written do { index += 2 } while (..), entered once
\* whatever the first point is.
getDaylightAdjustmentDoWhile(transitions, date) ==
    LET timeInMs == DateUTCToMinute(date)
        index == ScanTransitions(transitions, timeInMs, 2)
    IN IF index = 0 THEN Num(0) ELSE ArrayAt(transitions, index - 1)

getDaylightAdjustment(transitions, date) ==
    LET timeInMs == DateUTCToMinute(date)
        index == ScanTransitions(transitions, timeInMs, 0)
    IN IF index = 0 THEN Num(0) ELSE ArrayAt(transitions, index - 1)

\* Variant: the adjustment added instead of subtracted.
getOffsetPlus(standardOffset, transitions, date) ==
    LET adj == getDaylightAdjustment(transitions, date)
    IN IF IsNum(adj) THEN Num(standardOffset + adj.v) ELSE NaN

getOffset(standardOffset, transitions, date) ==
    JsMinus(standardOffset, getDaylightAdjustment(transitions, date))

\* Variant: the test written ">= 0", so that standard time counts as daylight.
isDaylightTimeNonNegative(transitions, date) ==
    JsLe0(JsNegate(getDaylightAdjustment(transitions, date)))

\* Variant: the test written "!= 0", so that a negative adjustment counts.
isDaylightTimeNonZero(transitions, date) ==
    ~JsEq0(getDaylightAdjustment(transitions, date))

isDaylightTime(transitions, date) ==
    JsGt0(getDaylightAdjustment(transitions, date))

getGMTString(standardOffset, transitions, date) ==
    composeGMTString_(getOffset(standardOffset, transitions, date))

getLongName(names, transitions, date) ==
    NameAt(names, IF isDaylightTime(transitions, date)
                  THEN DLT_LONG_NAME ELSE STD_LONG_NAME)

getShortName(names, transitions, date) ==
    NameAt(names, IF isDaylightTime(transitions, date)
                  THEN DLT_SHORT_NAME ELSE STD_SHORT_NAME)

\* Variant: the offset formatted without the negation.
getRFCTimeZoneStringNoNegate(standardOffset, transitions, date) ==
    LET offset == getOffset(standardOffset, transitions, date)
        sign == IF JsLt0(offset) THEN "-" ELSE "+"
        abs == MathAbs(offset)
    IN sign \o padNumber(HoursField(abs), 2) \o padNumber(MinutesField(abs), 2)

\* Variant: the fields joined unpadded.
getRFCTimeZoneStringUnpadded(standardOffset, transitions, date) ==
    LET offset == JsNegate(getOffset(standardOffset, transitions, date))
        sign == IF JsLt0(offset) THEN "-" ELSE "+"
        abs == MathAbs(offset)
    IN sign \o JsString(HoursField(abs)) \o JsString(MinutesField(abs))

getRFCTimeZoneString(standardOffset, transitions, date) ==
    LET offset == JsNegate(getOffset(standardOffset, transitions, date))
        sign == IF JsLt0(offset) THEN "-" ELSE "+"
        abs == MathAbs(offset)
    IN sign \o padNumber(HoursField(abs), 2) \o padNumber(MinutesField(abs), 2)

\* ------------------------------------------------------------------------
\* The inputs the callers supply.

\* Whole hours and minutes of the sampled offsets (minutes west of Greenwich):
\* 0, one- and two-digit hours, and 101 hours for the "% 100".
HourSamples == {0, 2, 5, 9, 12, 101}

MinuteSamples == {0, 5, 30}

OffsetSamples ==
    {s * (h * 60 + m) : s \in {-1, 1}, h \in HourSamples, m \in MinuteSamples}

\* Descriptors: std_offset (east-positive), names (2 or 4), transitions.
StdOffsetSamples == {480, -330, 60}

NamesSamples ==
    { <<"PST", "Pacific Standard Time", "PDT", "Pacific Daylight Time">>,
      <<"IST", "India Standard Time">> }

PointSamples == {0, 1}

AdjustmentSamples == {-60, 0, 60}

\* Every flat table of length n: points at the even (0-based) places,
\* adjustments at the odd ones; sorted or not, of even length or not.
TablesOfLength(n) ==
    { f \in [1..n -> PointSamples \cup AdjustmentSamples] :
        \A i \in 1..n : IF i % 2 = 1 THEN f[i] \in PointSamples
                                     ELSE f[i] \in AdjustmentSamples }

TableSamples == UNION { TablesOfLength(n) : n \in 0..MaxLen }

DescriptorSamples ==
    [id : {"America/Los_Angeles"}, std_offset : StdOffsetSamples,
     names : NamesSamples, transitions : TableSamples]

\* Instants: the first and the last millisecond of the epoch hours -1 .. 2.
DateSamples ==
    { h * MILLISECONDS_PER_HOUR_ + ms :
        h \in -1..2, ms \in {0, MILLISECONDS_PER_HOUR_ - 1} }

\* ------------------------------------------------------------------------
\* The state: one TimeZone object, the argument its factory was given, and
\* the last query made on it with the value it returned.
VARIABLES created, timeZoneData, timeZoneId_, standardOffset_, tzNames_,
          transitions_, lastCall

fields == <<created, timeZoneData, timeZoneId_, standardOffset_, tzNames_,
            transitions_>>

NoCall == [op |-> "none", date |-> 0, val |-> Undefined]

\* The browser check's state: what BrowserDetect found (the version in tenths,
\* so that 3.6 is 36), the value of the weschemeBrowserVersionCheck cookie (""
\* when there is none), whether the page has globals named browser and
\* minimumVersion, the dialogs opened so far, and the last run of
\* browserCheck.
VARIABLES browser, versionTenths, cookie, globalsDefined, dialogs, lastCheck

browserVars == <<browser, versionTenths, cookie, globalsDefined, dialogs, lastCheck>>

\* One run of the while loop of getDaylightAdjustment, step by step: the
\* table and the date it runs on, its index, the iterations made, and where
\* it is ("idle", "loop", "done").
VARIABLES scanTable, scanDate, scanIndex, iterations, scanPc

scanVars == <<scanTable, scanDate, scanIndex, iterations, scanPc>>

\* The REPL of WeSchemeInteractions: the text of the prompt's input element,
\* this.history, this.pinfo and this.namespace (both as the set of names they
\* define), and the last key events handled by maybeRunPrompt, newest last.
VARIABLES input, history, pinfo, namespace, keyLog

replVars == <<input, history, pinfo, namespace, keyLog>>

\* The design-recipe widget: the text of its nine fields, the four error
\* elements, the disabled property of the design-recipe-insertCode button,
\* whether the form is shown, whether the editor has a tokenizer, and the last
\* check callback with what it returned.
VARIABLES form, errors, insertDisabled, shown, hasTokenizer, lastCallback

widgetVars == <<form, errors, insertDisabled, shown, hasTokenizer, lastCallback>>

vars == <<created, timeZoneData, timeZoneId_, standardOffset_, tzNames_,
          transitions_, lastCall, browserVars, scanVars, replVars, widgetVars>>

NoCheck == [ran |-> FALSE, cookieBefore |-> "", path |-> "none",
            marked |-> FALSE, dialog |-> FALSE, threw |-> FALSE]

\* No TimeZone object yet: the constructor assigns nothing.
TimeZoneIdle ==
    /\ created = FALSE
    /\ timeZoneData = Undefined
    /\ timeZoneId_ = Undefined
    /\ standardOffset_ = Undefined
    /\ tzNames_ = Undefined
    /\ transitions_ = Undefined
    /\ lastCall = NoCall

\* No page loaded: browserCheck is not part of the behaviour.
BrowserIdle ==
    /\ browser = ""
    /\ versionTenths = 0
    /\ cookie = ""
    /\ globalsDefined = FALSE
    /\ dialogs = 0
    /\ lastCheck = NoCheck

\* No scan being followed step by step.
ScanIdle ==
    /\ scanTable = <<>>
    /\ scanDate = 0
    /\ scanIndex = 0
    /\ iterations = 0
    /\ scanPc = "idle"

\* new WeSchemeInteractions(div) followed by reset(), nothing typed yet.
ReplIdle ==
    /\ input = ""
    /\ history = <<>>
    /\ pinfo = {}
    /\ namespace = {}
    /\ keyLog = <<>>

\* clearForm's values: every field empty.
EmptyForm ==
    [name |-> "", domain |-> "", range |-> "",
     example1_header |-> "", example1_body |-> "",
     example2_header |-> "", example2_body |-> "",
     def_header |-> "", def_body |-> ""]

NoErrors ==
    [contract_error |-> "", example1_error |-> "", example2_error |-> "",
     definition_error |-> ""]

NoCallback == [name |-> "none", returned |-> "none"]

\* No widget on the page.
WidgetIdle ==
    /\ form = EmptyForm
    /\ errors = NoErrors
    /\ insertDisabled = TRUE
    /\ shown = FALSE
    /\ hasTokenizer = FALSE
    /\ lastCallback = NoCallback

\* new goog.i18n.TimeZone().
Init == TimeZoneIdle /\ BrowserIdle /\ ScanIdle /\ ReplIdle /\ WidgetIdle

\* Variant: the bare offset negated, as the descriptor's std_offset is.
createSimpleTimeZone_Negated(timeZoneOffsetInMinutes) ==
    /\ ~created
    /\ created' = TRUE
    /\ timeZoneData' = Num(timeZoneOffsetInMinutes)
    /\ standardOffset_' = 0 - timeZoneOffsetInMinutes
    /\ timeZoneId_' = composePosixTimeZoneID_(Num(timeZoneOffsetInMinutes))
    /\ LET str == composeUTCString_(Num(timeZoneOffsetInMinutes))
       IN tzNames_' = <<str, str>>
    /\ transitions_' = <<>>
    /\ UNCHANGED <<lastCall, browserVars, scanVars, replVars, widgetVars>>

\* createTimeZone(timeZoneData) with a number: createSimpleTimeZone_.
createSimpleTimeZone_(timeZoneOffsetInMinutes) ==
    /\ ~created
    /\ created' = TRUE
    /\ timeZoneData' = Num(timeZoneOffsetInMinutes)
    /\ standardOffset_' = timeZoneOffsetInMinutes
    /\ timeZoneId_' = composePosixTimeZoneID_(Num(timeZoneOffsetInMinutes))
    /\ LET str == composeUTCString_(Num(timeZoneOffsetInMinutes))
       IN tzNames_' = <<str, str>>
    /\ transitions_' = <<>>
    /\ UNCHANGED <<lastCall, browserVars, scanVars, replVars, widgetVars>>

\* Variant: std_offset stored without the negation.
createTimeZoneUnnegated(data) ==
    /\ ~created
    /\ created' = TRUE
    /\ timeZoneData' = [t |-> "object", v |-> data]
    /\ timeZoneId_' = data.id
    /\ standardOffset_' = data.std_offset
    /\ tzNames_' = data.names
    /\ transitions_' = data.transitions
    /\ UNCHANGED <<lastCall, browserVars, scanVars, replVars, widgetVars>>

\* createTimeZone(timeZoneData) with a descriptor object.
createTimeZone(data) ==
    /\ ~created
    /\ created' = TRUE
    /\ timeZoneData' = [t |-> "object", v |-> data]
    /\ timeZoneId_' = data.id
    /\ standardOffset_' = 0 - data.std_offset
    /\ tzNames_' = data.names
    /\ transitions_' = data.transitions
    /\ UNCHANGED <<lastCall, browserVars, scanVars, replVars, widgetVars>>

\* Variant: a query that consumes the pairs it has scanned past (the scan
\* written with shift() on the table itself).
ReturnsConsumingTable(op, date, val) ==
    /\ created
    /\ lastCall' = [op |-> op, date |-> date, val |-> val]
    /\ transitions_' = SubSeq(transitions_,
                              ScanTransitions(transitions_, DateUTCToMinute(date), 0) + 1,
                              Len(transitions_))
    /\ UNCHANGED <<created, timeZoneData, timeZoneId_, standardOffset_, tzNames_>>
    /\ UNCHANGED <<browserVars, scanVars, replVars, widgetVars>>

Returns(op, date, val) ==
    /\ created
    /\ lastCall' = [op |-> op, date |-> date, val |-> val]
    /\ UNCHANGED <<fields, browserVars, scanVars, replVars, widgetVars>>

CallGetDaylightAdjustment(date) ==
    Returns("getDaylightAdjustment", date,
            getDaylightAdjustment(transitions_, date))

CallGetOffset(date) ==
    Returns("getOffset", date, getOffset(standardOffset_, transitions_, date))

CallIsDaylightTime(date) ==
    Returns("isDaylightTime", date, isDaylightTime(transitions_, date))

CallGetGMTString(date) ==
    Returns("getGMTString", date,
            getGMTString(standardOffset_, transitions_, date))

CallGetRFCTimeZoneString(date) ==
    Returns("getRFCTimeZoneString", date,
            getRFCTimeZoneString(standardOffset_, transitions_, date))

CallGetLongName(date) ==
    Returns("getLongName", date, getLongName(tzNames_, transitions_, date))

CallGetShortName(date) ==
    Returns("getShortName", date, getShortName(tzNames_, transitions_, date))

CallGetTimeZoneId ==
    Returns("getTimeZoneId", 0, timeZoneId_)

Next ==
    \/ \E m \in OffsetSamples : createSimpleTimeZone_(m)
    \/ \E data \in DescriptorSamples : createTimeZone(data)
    \/ \E date \in DateSamples : CallGetDaylightAdjustment(date)
    \/ \E date \in DateSamples : CallGetOffset(date)
    \/ \E date \in DateSamples : CallIsDaylightTime(date)
    \/ \E date \in DateSamples : CallGetGMTString(date)
    \/ \E date \in DateSamples : CallGetRFCTimeZoneString(date)
    \/ \E date \in DateSamples : CallGetLongName(date)
    \/ \E date \in DateSamples : CallGetShortName(date)
    \/ CallGetTimeZoneId

Spec == Init /\ [][Next]_vars

\* ------------------------------------------------------------------------
\* What the specification says, stated without the code's own operators.

Digits == <<"0", "1", "2", "3", "4", "5", "6", "7", "8", "9">>

\* The decimal numeral of n >= 0, without padding.
RECURSIVE Decimal(_)
Decimal(n) == IF n < 10 THEN Digits[n + 1] ELSE Decimal(n \div 10) \o Digits[(n % 10) + 1]

\* n in 0..99 as exactly two digits.
TwoDigits(n) == Digits[(n \div 10) + 1] \o Digits[(n % 10) + 1]

Magnitude(o) == IF o < 0 THEN 0 - o ELSE o

WholeHours(o) == (Magnitude(o) \div 60) % 100

RestMinutes(o) == Magnitude(o) % 60

\* The instant's epoch-hour value.
EpochHour(date) == date \div MILLISECONDS_PER_HOUR_

PairCount(table) == Len(table) \div 2

PointOf(table, k) == table[2 * k - 1]

AdjustmentOf(table, k) == table[2 * k]

\* Even length, points non-decreasing.
WellFormed(table) ==
    /\ Len(table) % 2 = 0
    /\ \A j, k \in 1..PairCount(table) : j < k => PointOf(table, j) <= PointOf(table, k)

\* The pairs whose point is <= the hour h.
Qualifying(table, h) == { k \in 1..PairCount(table) : PointOf(table, k) <= h }

LastOf(S) == CHOOSE k \in S : \A j \in S : j <= k

ExpectedAdjustment(table, h) ==
    IF Qualifying(table, h) = {} THEN 0
    ELSE AdjustmentOf(table, LastOf(Qualifying(table, h)))

Called(op) == created /\ lastCall.op = op

\* C1: on a well-formed table (even length, points non-decreasing)
\* getDaylightAdjustment returns the adjustment paired with the last transition
\* whose point is <= the instant's epoch hour (of equal points, the last), and
\* 0 when no point is <= the instant or the table is empty.
C1_LastQualifyingTransition ==
    (Called("getDaylightAdjustment") /\ WellFormed(transitions_))
        => lastCall.val
             = Num(ExpectedAdjustment(transitions_, EpochHour(lastCall.date)))

\* The query ran at an instant at or after two pairs that share one point and
\* carry different adjustments, and returned the second pair's adjustment.
C1_Witness ==
    /\ Called("getDaylightAdjustment")
    /\ WellFormed(transitions_)
    /\ Len(transitions_) = 4
    /\ transitions_[1] = transitions_[3]
    /\ transitions_[2] # transitions_[4]
    /\ EpochHour(lastCall.date) >= transitions_[3]
    /\ lastCall.val = Num(transitions_[4])

\* The instant precedes the first transition point, or there is none.
BeforeFirstTransition(table, date) ==
    \/ Len(table) = 0
    \/ date < table[1] * MILLISECONDS_PER_HOUR_

\* C2: at every instant that precedes the first transition point, and at every
\* instant when the table is empty, getOffset equals standardOffset and
\* isDaylightTime is false.
C2_StandardBeforeFirstTransition ==
    /\ (Called("getOffset") /\ BeforeFirstTransition(transitions_, lastCall.date))
          => lastCall.val = Num(standardOffset_)
    /\ (Called("isDaylightTime") /\ BeforeFirstTransition(transitions_, lastCall.date))
          => lastCall.val = FALSE

\* isDaylightTime ran in the last millisecond before the first transition of
\* a table whose first pair switches daylight time on, and returned false.
C2_Witness ==
    /\ Called("isDaylightTime")
    /\ Len(transitions_) >= 2
    /\ transitions_[2] > 0
    /\ lastCall.date = transitions_[1] * MILLISECONDS_PER_HOUR_ - 1
    /\ lastCall.val = FALSE

\* C3: getOffset = standardOffset - getDaylightAdjustment; a positive
\* adjustment strictly lowers the offset, a negative one strictly raises it.
C3_OffsetIsStandardMinusAdjustment ==
    Called("getOffset") =>
        LET adj == getDaylightAdjustment(transitions_, lastCall.date)
        IN IsNum(adj) =>
             /\ lastCall.val = Num(standardOffset_ - adj.v)
             /\ adj.v > 0 => lastCall.val.v < standardOffset_
             /\ adj.v < 0 => lastCall.val.v > standardOffset_

\* getOffset ran while a positive adjustment was in force and returned an
\* offset below the standard one.
C3_Witness ==
    /\ Called("getOffset")
    /\ getDaylightAdjustment(transitions_, lastCall.date) = Num(60)
    /\ lastCall.val = Num(standardOffset_ - 60)

\* C4: with 4 names, isDaylightTime is true exactly when the adjustment is > 0
\* (0 and negative are not daylight time); getShortName returns names[2] in
\* daylight time and names[0] otherwise, getLongName names[3] and names[1]
\* (0-based; the sequences here are 1-based).
C4_DaylightNames ==
    (created /\ Len(tzNames_) = 4) =>
        LET adj == getDaylightAdjustment(transitions_, lastCall.date)
            daylight == adj.t = "number" /\ adj.v > 0
        IN /\ lastCall.op = "isDaylightTime" => lastCall.val = daylight
           /\ lastCall.op = "getShortName"
                => lastCall.val = Str(IF daylight THEN tzNames_[3] ELSE tzNames_[1])
           /\ lastCall.op = "getLongName"
                => lastCall.val = Str(IF daylight THEN tzNames_[4] ELSE tzNames_[2])

\* getShortName ran in daylight time and returned the daylight short name.
C4_Witness ==
    /\ Called("getShortName")
    /\ Len(tzNames_) = 4
    /\ getDaylightAdjustment(transitions_, lastCall.date) = Num(60)
    /\ lastCall.val = Str("PDT")

\* The object came from createSimpleTimeZone_, given the bare offset m.
SimpleFrom(m) == created /\ timeZoneData = Num(m)

IsSimple == created /\ timeZoneData.t = "number"

\* C5, as stated: the synthesized POSIX id has sign '+' for a negative input
\* offset and '-' for a positive one, so the bare offset -120 gives "Etc/GMT+2",
\* the sign the UTC string of that offset ("UTC+2") has.
C5_AsStated ==
    (Called("getTimeZoneId") /\ IsSimple /\ timeZoneData.v # 0) =>
        LET m == timeZoneData.v
            sign == IF m < 0 THEN "+" ELSE "-"
        IN /\ lastCall.val
                = "Etc/GMT" \o sign \o Decimal(WholeHours(m))
                    \o (IF RestMinutes(m) # 0 THEN ":" \o TwoDigits(RestMinutes(m)) ELSE "")
           /\ m = -120 => lastCall.val = "Etc/GMT+2"

\* C5, amended: the synthesized POSIX id has sign '-' for a negative input
\* offset and '+' for a positive one (the POSIX convention, the opposite of the
\* UTC string's sign): the bare offset -120 gives "Etc/GMT-2" while its UTC
\* string, the zone's name, is "UTC+2".
C5_PosixSignFollowsInput ==
    (Called("getTimeZoneId") /\ IsSimple /\ timeZoneData.v # 0) =>
        LET m == timeZoneData.v
            sign == IF m < 0 THEN "-" ELSE "+"
        IN /\ lastCall.val
                = "Etc/GMT" \o sign \o Decimal(WholeHours(m))
                    \o (IF RestMinutes(m) # 0 THEN ":" \o TwoDigits(RestMinutes(m)) ELSE "")
           /\ m = -120 => (lastCall.val = "Etc/GMT-2" /\ tzNames_[1] = "UTC+2")

\* getTimeZoneId ran on the zone built from the bare offset -120.
C5_Witness ==
    /\ Called("getTimeZoneId")
    /\ SimpleFrom(-120)
    /\ lastCall.val = "Etc/GMT-2"

\* The offset resolved at the instant of the last call.
ResolvedOffset == getOffset(standardOffset_, transitions_, lastCall.date)

\* C6, as stated: when the resolved (west-positive) offset is +330 minutes,
\* getRFCTimeZoneString returns "+0530".
C6_AsStated ==
    (Called("getRFCTimeZoneString") /\ ResolvedOffset = Num(330))
        => lastCall.val = "+0530"

\* C6, amended: when the resolved (west-positive) offset is +330 minutes,
\* getRFCTimeZoneString returns "-0530", the sign of the GMT string "GMT-05:30".
C6_RfcOfWest330 ==
    (Called("getRFCTimeZoneString") /\ ResolvedOffset = Num(330))
        => lastCall.val = "-0530"

\* getRFCTimeZoneString ran on a zone whose offset resolves to +330.
C6_Witness ==
    /\ Called("getRFCTimeZoneString")
    /\ ResolvedOffset = Num(330)
    /\ lastCall.val = "-0530"

\* C7: the GMT string of an integer offset o is "GMT" + sign + HH + ":" + MM,
\* sign '+' when o <= 0 and '-' when o > 0, HH = floor(|o|/60) mod 100 and
\* MM = |o| mod 60, each exactly two digits; getGMTString gives it for
\* o = getOffset(instant): 0 gives "GMT+00:00", +330 gives "GMT-05:30".
C7_GmtString ==
    (Called("getGMTString") /\ IsNum(ResolvedOffset)) =>
        LET o == ResolvedOffset.v
            sign == IF o <= 0 THEN "+" ELSE "-"
        IN /\ lastCall.val
                = "GMT" \o sign \o TwoDigits(WholeHours(o)) \o ":" \o TwoDigits(RestMinutes(o))
           /\ Len(lastCall.val) = 9
           /\ o = 0 => lastCall.val = "GMT+00:00"
           /\ o = 330 => lastCall.val = "GMT-05:30"

\* getGMTString ran on a zone whose offset resolves to 0.
C7_Witness ==
    /\ Called("getGMTString")
    /\ ResolvedOffset = Num(0)
    /\ lastCall.val = "GMT+00:00"

\* C8: getRFCTimeZoneString formats e = -getOffset(instant): sign '-' when
\* e < 0 and '+' otherwise (e = 0 included), then floor(|e|/60) mod 100 and
\* |e| mod 60, two digits each and no colon: always 5 characters.
C8_RfcString ==
    (Called("getRFCTimeZoneString") /\ IsNum(ResolvedOffset)) =>
        LET e == 0 - ResolvedOffset.v
            sign == IF e < 0 THEN "-" ELSE "+"
        IN /\ lastCall.val = sign \o TwoDigits(WholeHours(e)) \o TwoDigits(RestMinutes(e))
           /\ Len(lastCall.val) = 5

\* getRFCTimeZoneString ran on an offset of more than 100 hours east, whose
\* hour field wraps: -(101 h 5 min) gives "+0105".
C8_Witness ==
    /\ Called("getRFCTimeZoneString")
    /\ ResolvedOffset = Num(0 - (101 * 60 + 5))
    /\ lastCall.val = "+0105"

\* The UTC display string the specification describes for the offset o.
ExpectedUTCString(o) ==
    IF o = 0 THEN "UTC"
    ELSE "UTC" \o (IF o < 0 THEN "+" ELSE "-") \o Decimal(WholeHours(o))
           \o (IF RestMinutes(o) # 0 THEN ":" \o Decimal(RestMinutes(o)) ELSE "")

\* C9: the UTC display string of an integer offset o is "UTC" when o = 0;
\* otherwise "UTC" + sign + H, then ":" + M only when |o| mod 60 is not 0; the
\* sign is '+' when o < 0 and '-' when o > 0, H = floor(|o|/60) mod 100 and M
\* are unpadded: -120 gives "UTC+2", -545 gives "UTC+9:5".
C9_UtcString ==
    IsSimple =>
        LET o == timeZoneData.v
        IN /\ tzNames_ = <<ExpectedUTCString(o), ExpectedUTCString(o)>>
           /\ o = -120 => tzNames_[1] = "UTC+2"
           /\ o = -545 => tzNames_[1] = "UTC+9:5"
           /\ Called("getShortName") => lastCall.val = Str(ExpectedUTCString(o))

\* getShortName ran on the zone built from the bare offset -545.
C9_Witness ==
    /\ Called("getShortName")
    /\ SimpleFrom(-545)
    /\ lastCall.val = Str("UTC+9:5")

\* C10: the POSIX zone id of an integer offset o is "Etc/GMT" when o = 0 (no
\* sign, no digits); otherwise "Etc/GMT" + a sign + the whole hours
\* (floor(|o|/60) mod 100, unpadded), then ":MM" (two digits) if and only if
\* |o| mod 60 is not 0.  The zone built from the bare offset 0 has the id
\* "Etc/GMT" and the names "UTC".
C10_PosixId ==
    IsSimple =>
        LET o == timeZoneData.v
            tail == Decimal(WholeHours(o))
                      \o (IF RestMinutes(o) # 0 THEN ":" \o TwoDigits(RestMinutes(o)) ELSE "")
        IN /\ o = 0 => (timeZoneId_ = "Etc/GMT" /\ tzNames_ = <<"UTC", "UTC">>)
           /\ o # 0 => timeZoneId_ \in {"Etc/GMT+" \o tail, "Etc/GMT-" \o tail}
           /\ Called("getTimeZoneId") => lastCall.val = timeZoneId_

\* getTimeZoneId ran on the zone built from the bare offset 0.
C10_Witness ==
    /\ Called("getTimeZoneId")
    /\ SimpleFrom(0)
    /\ lastCall.val = "Etc/GMT"
    /\ tzNames_ = <<"UTC", "UTC">>

\* C11: a TimeZone built from a bare offset m stores m unnegated, has an empty
\* transition table and two identical names, the UTC display string of m; so
\* at every instant getOffset = m, getDaylightAdjustment = 0, isDaylightTime is
\* false and getShortName = getLongName = that string.
C11_SimpleTimeZone ==
    IsSimple =>
        LET m == timeZoneData.v
            str == ExpectedUTCString(m)
        IN /\ standardOffset_ = m
           /\ transitions_ = <<>>
           /\ tzNames_ = <<str, str>>
           /\ lastCall.op = "getOffset" => lastCall.val = Num(m)
           /\ lastCall.op = "getDaylightAdjustment" => lastCall.val = Num(0)
           /\ lastCall.op = "isDaylightTime" => lastCall.val = FALSE
           /\ lastCall.op \in {"getShortName", "getLongName"} => lastCall.val = Str(str)

\* getOffset ran on the zone built from the bare offset -330.
C11_Witness ==
    /\ Called("getOffset")
    /\ SimpleFrom(-330)
    /\ tzNames_ = <<"UTC+5:30", "UTC+5:30">>
    /\ lastCall.val = Num(-330)

FromDescriptor == created /\ timeZoneData.t = "object"

\* C12: a TimeZone built from a descriptor has getTimeZoneId() = id,
\* standardOffset = -std_offset and the descriptor's names and transitions;
\* with an empty table getOffset = -std_offset at every instant.
C12_DescriptorTimeZone ==
    FromDescriptor =>
        LET d == timeZoneData.v
        IN /\ timeZoneId_ = d.id
           /\ standardOffset_ + d.std_offset = 0
           /\ tzNames_ = d.names
           /\ transitions_ = d.transitions
           /\ lastCall.op = "getTimeZoneId" => lastCall.val = d.id
           /\ (lastCall.op = "getOffset" /\ d.transitions = <<>>)
                => lastCall.val = Num(0 - d.std_offset)

\* getOffset ran on the zone of a descriptor with std_offset 480 and no
\* transitions.
C12_Witness ==
    /\ Called("getOffset")
    /\ FromDescriptor
    /\ timeZoneData.v.std_offset = 480
    /\ timeZoneData.v.transitions = <<>>
    /\ lastCall.val = Num(-480)

\* The fields a fresh construction from the factory's argument gives.
FreshObject ==
    IF timeZoneData.t = "number"
    THEN [id |-> composePosixTimeZoneID_(timeZoneData), std |-> timeZoneData.v,
          names |-> <<composeUTCString_(timeZoneData), composeUTCString_(timeZoneData)>>,
          tr |-> <<>>]
    ELSE [id |-> timeZoneData.v.id, std |-> 0 - timeZoneData.v.std_offset,
          names |-> timeZoneData.v.names, tr |-> timeZoneData.v.transitions]

\* What the method op returns at date when run alone on the fresh object.
FreshValue(op, date) ==
    LET f == FreshObject
    IN CASE op = "getDaylightAdjustment" -> getDaylightAdjustment(f.tr, date)
         [] op = "getOffset" -> getOffset(f.std, f.tr, date)
         [] op = "isDaylightTime" -> isDaylightTime(f.tr, date)
         [] op = "getGMTString" -> getGMTString(f.std, f.tr, date)
         [] op = "getRFCTimeZoneString" -> getRFCTimeZoneString(f.std, f.tr, date)
         [] op = "getLongName" -> getLongName(f.names, f.tr, date)
         [] op = "getShortName" -> getShortName(f.names, f.tr, date)
         [] op = "getTimeZoneId" -> f.id

\* C13: queries are pure: in any sequence of calls on one TimeZone no call
\* changes timeZoneId, standardOffset, names or transitions, and each call
\* returns what it returns when run alone on the freshly constructed object
\* with the same instant.
C13_QueriesArePure ==
    [][created =>
         /\ UNCHANGED <<timeZoneId_, standardOffset_, tzNames_, transitions_>>
         /\ lastCall'.val = FreshValue(lastCall'.op, lastCall'.date)]_vars

\* A query ran on a zone with two pairs, in daylight time, and the object
\* still has the fields of its construction.
C13_Witness ==
    /\ Called("getShortName")
    /\ FromDescriptor
    /\ Len(transitions_) = 4
    /\ transitions_ = FreshObject.tr
    /\ tzNames_ = FreshObject.names
    /\ lastCall.val = Str("PDT")

\* C15: on every even-length table, sorted or not, getDaylightAdjustment
\* returns 0 or a value stored in an adjustment slot (odd index) of the
\* table; never a transition point, never undefined.
C15_ResultIsAnAdjustment ==
    (Called("getDaylightAdjustment") /\ Len(transitions_) % 2 = 0)
        => lastCall.val
             \in {Num(0)} \cup { Num(AdjustmentOf(transitions_, k)) :
                                   k \in 1..PairCount(transitions_) }

\* The query ran on an unsorted table after both of its points.
C15_Witness ==
    /\ Called("getDaylightAdjustment")
    /\ Len(transitions_) = 4
    /\ transitions_[1] > transitions_[3]
    /\ EpochHour(lastCall.date) >= transitions_[1]
    /\ lastCall.val = Num(transitions_[4])
    /\ transitions_[4] # 0

\* The table's adjustments are pairwise different and none is 0, so a result
\* names the pair it came from.
DistinctAdjustments(table) ==
    /\ Len(table) % 2 = 0
    /\ \A j, k \in 1..PairCount(table) :
         /\ AdjustmentOf(table, j) # 0
         /\ j # k => AdjustmentOf(table, j) # AdjustmentOf(table, k)

\* C16: on every table, when getDaylightAdjustment returns the adjustment of
\* a pair, that pair's point is <= the instant's hour: no instant gets an
\* adjustment from a point strictly in its future.
C16_NoFutureTransition ==
    Called("getDaylightAdjustment") =>
        LET index == ScanTransitions(transitions_, DateUTCToMinute(lastCall.date), 0)
        IN /\ (index > 0 /\ index <= Len(transitions_)) =>
                /\ lastCall.val = Num(transitions_[index])
                /\ transitions_[index - 1] <= EpochHour(lastCall.date)
           /\ DistinctAdjustments(transitions_) =>
                \A k \in 1..PairCount(transitions_) :
                    lastCall.val = Num(AdjustmentOf(transitions_, k))
                        => PointOf(transitions_, k) <= EpochHour(lastCall.date)

\* The query ran between the two points of a table with different non-zero
\* adjustments and returned the first one.
C16_Witness ==
    /\ Called("getDaylightAdjustment")
    /\ Len(transitions_) = 4
    /\ DistinctAdjustments(transitions_)
    /\ transitions_[1] <= EpochHour(lastCall.date)
    /\ EpochHour(lastCall.date) < transitions_[3]
    /\ lastCall.val = Num(transitions_[2])

\* The scan made on whole hours: the instant's floor(epoch hours) against the
\* points.
RECURSIVE HourScan(_, _, _)
HourScan(table, hour, index) ==
    IF index < Len(table) /\ hour >= table[index + 1]
    THEN HourScan(table, hour, index + 2)
    ELSE index

HourAdjustment(table, hour) ==
    IF HourScan(table, hour, 0) = 0 THEN Num(0)
    ELSE ArrayAt(table, HourScan(table, hour, 0) - 1)

\* C17: with integer transition points the result of the code, which keeps
\* the minutes and compares a fractional hour count, equals the result
\* computed from floor(epoch hours): two instants of one UTC hour get the same
\* adjustment, and hh:59:59.999 before a transition hour gets the previous one.
C17_WholeHourGranularity ==
    Called("getDaylightAdjustment")
        => lastCall.val = HourAdjustment(transitions_, EpochHour(lastCall.date))

\* The query ran in the last millisecond before the second transition hour
\* and returned the first pair's adjustment, not the second's.
C17_Witness ==
    /\ Called("getDaylightAdjustment")
    /\ Len(transitions_) = 4
    /\ transitions_[1] < transitions_[3]
    /\ transitions_[2] # transitions_[4]
    /\ lastCall.date = transitions_[3] * MILLISECONDS_PER_HOUR_ - 1
    /\ EpochHour(lastCall.date) >= transitions_[1]
    /\ lastCall.val = Num(transitions_[2])

NameCalled == created /\ lastCall.op \in {"getLongName", "getShortName"}

WithoutGmtAndColon(gmt) == SubSeq(gmt, 4, 6) \o SubSeq(gmt, 8, 9)

\* C19: the GMT and RFC formatters apply the same sign flip and the same
\* digits to the resolved offset: for every integer offset (0 and
\* |offset| >= 6000 included) getRFCTimeZoneString(instant) is
\* getGMTString(instant) without the leading "GMT" and the ":".
C19_RfcIsGmtStripped ==
    (created /\ IsNum(ResolvedOffset)) =>
        /\ lastCall.op = "getRFCTimeZoneString" =>
             lastCall.val
               = WithoutGmtAndColon(getGMTString(standardOffset_, transitions_, lastCall.date))
        /\ lastCall.op = "getGMTString" =>
             WithoutGmtAndColon(lastCall.val)
               = getRFCTimeZoneString(standardOffset_, transitions_, lastCall.date)

\* getRFCTimeZoneString ran on a zone whose offset resolves to 0.
C19_Witness ==
    /\ Called("getRFCTimeZoneString")
    /\ ResolvedOffset = Num(0)
    /\ lastCall.val = "+0000"
    /\ getGMTString(standardOffset_, transitions_, lastCall.date) = "GMT+00:00"

\* ------------------------------------------------------------------------
\* The while loop of getDaylightAdjustment, one iteration per step.

\* index < this.transitions_.length && timeInHours >= this.transitions_[index]
LoopCondition ==
    /\ scanIndex < Len(scanTable)
    /\ DateUTCToMinute(scanDate) >= scanTable[scanIndex + 1] * MILLISECONDS_PER_HOUR_

ScanInit ==
    /\ WidgetIdle
    /\ TimeZoneIdle
    /\ BrowserIdle
    /\ ReplIdle
    /\ scanTable \in TableSamples
    /\ scanDate \in DateSamples
    /\ scanIndex = 0
    /\ iterations = 0
    /\ scanPc = "loop"

\* Variant: the loop body written index += 1.
ScanStepByOne ==
    /\ scanPc = "loop"
    /\ LoopCondition
    /\ scanIndex' = scanIndex + 1
    /\ iterations' = iterations + 1
    /\ UNCHANGED <<scanTable, scanDate, scanPc, fields, lastCall, browserVars, replVars, widgetVars>>

\* The loop body: index += 2.
ScanStep ==
    /\ scanPc = "loop"
    /\ LoopCondition
    /\ scanIndex' = scanIndex + 2
    /\ iterations' = iterations + 1
    /\ UNCHANGED <<scanTable, scanDate, scanPc, fields, lastCall, browserVars, replVars, widgetVars>>

\* The loop condition fails: the method goes on to its return statement.
ScanExit ==
    /\ scanPc = "loop"
    /\ ~LoopCondition
    /\ scanPc' = "done"
    /\ UNCHANGED <<scanTable, scanDate, scanIndex, iterations, fields, lastCall, browserVars, replVars, widgetVars>>

ScanNext == ScanStep \/ ScanExit

\* A method call runs to completion: the loop is never left half-way.
SpecScan == ScanInit /\ [][ScanNext]_vars /\ WF_vars(ScanNext)

\* The step-by-step loop ends where the operator ScanTransitions ends.
ScanAgreesWithOperator ==
    scanPc = "done"
        => scanIndex = ScanTransitions(scanTable, DateUTCToMinute(scanDate), 0)

\* The smallest integer >= n / 2.
CeilHalf(n) == (n + 1) \div 2

\* C20: every query terminates: on a table of length n (even or odd, sorted
\* or not) the scan makes at most ceil(n/2) iterations, its index is always
\* even and only increases, and it stops at the first point greater than the
\* instant or at the end of the table.
C20_ScanTerminates ==
    /\ [](/\ scanIndex % 2 = 0
          /\ scanIndex = 2 * iterations
          /\ iterations <= CeilHalf(Len(scanTable))
          /\ scanPc = "done" =>
               /\ \A k \in 0..(iterations - 1) :
                    scanTable[2 * k + 1] <= EpochHour(scanDate)
               /\ \/ scanIndex >= Len(scanTable)
                  \/ scanTable[scanIndex + 1] > EpochHour(scanDate))
    /\ [][scanIndex' > scanIndex \/ scanIndex' = scanIndex]_vars
    /\ <>(scanPc = "done")

\* The scan ran over a table of odd length 3 to its end: ceil(3/2) = 2
\* iterations, the index past the end.
C20_Witness ==
    /\ scanPc = "done"
    /\ Len(scanTable) = 3
    /\ iterations = 2
    /\ scanIndex = 4

\* ------------------------------------------------------------------------
\* plt.wescheme.browserCheck.

COOKIE_VALUE == "checked"

\* Versions are held in tenths: minimumVersion 5 is 50, 3.6 is 36.
expectedBrowserVersions ==
    << [browser |-> "Chrome", minimumVersion |-> 50],
       [browser |-> "Firefox", minimumVersion |-> 36] >>

BrowserSamples == {"Chrome", "Firefox", "Safari", "Explorer"}

VersionSamples == {30, 36, 40, 50, 60}

\* Cookies.readCookie(COOKIE_NAME) === COOKIE_VALUE
browserAlreadyChecked(c) == c = COOKIE_VALUE

\* warnBrowserMightBeOlderThanExpected(browser, minimumVersion): every name it
\* reads is bound, the dialog is built and opened.
OlderThanExpected ==
    [path |-> "older", marked |-> TRUE, dialog |-> TRUE, threw |-> FALSE]

\* Variant: the cookie written only once the dialog has been opened.
MightNotWorkMarksAfter(g) ==
    [path |-> "untested", marked |-> g, dialog |-> g, threw |-> ~g]

\* markBrowserChecked(); warnBrowserMightNotWork().  The function has no
\* parameters and reads browser and minimumVersion, bound neither in it nor
\* in the enclosing closure: they resolve to globals of the page when such
\* globals exist (g), and otherwise building the text throws a ReferenceError
\* before the dialog is created.  The cookie is set before either.
MightNotWork(g) ==
    [path |-> "untested", marked |-> TRUE, dialog |-> g, threw |-> ~g]

\* The for loop over expectedBrowserVersions, from entry i (1-based here), and
\* the code after it.
RECURSIVE CheckFrom(_, _, _, _)
CheckFrom(i, b, v, g) ==
    IF i > Len(expectedBrowserVersions) THEN MightNotWork(g)
    ELSE IF b = expectedBrowserVersions[i].browser
         THEN IF v >= expectedBrowserVersions[i].minimumVersion
              THEN [path |-> "expected", marked |-> FALSE, dialog |-> FALSE,
                    threw |-> FALSE]
              ELSE OlderThanExpected
         ELSE CheckFrom(i + 1, b, v, g)

\* What one call of browserCheck does, given the cookie c, the detected
\* browser b and version v, and whether the globals exist.
browserCheckOutcome(c, b, v, g) ==
    IF browserAlreadyChecked(c)
    THEN [path |-> "already", marked |-> FALSE, dialog |-> FALSE, threw |-> FALSE]
    ELSE CheckFrom(1, b, v, g)

\* A page load: BrowserDetect has run, the cookie is there from an earlier
\* visit or not.
BrowserInit ==
    /\ WidgetIdle
    /\ TimeZoneIdle
    /\ ScanIdle
    /\ ReplIdle
    /\ browser \in BrowserSamples
    /\ versionTenths \in VersionSamples
    /\ cookie \in {"", COOKIE_VALUE}
    /\ globalsDefined \in BOOLEAN
    /\ dialogs = 0
    /\ lastCheck = NoCheck

\* plt.wescheme.browserCheck(), the whole call; markBrowserChecked is
\* Cookies.createCookie(COOKIE_NAME, COOKIE_VALUE).
browserCheck ==
    /\ dialogs < MaxDialogs
    /\ LET o == browserCheckOutcome(cookie, browser, versionTenths, globalsDefined)
       IN /\ cookie' = IF o.marked THEN COOKIE_VALUE ELSE cookie
          /\ dialogs' = IF o.dialog THEN dialogs + 1 ELSE dialogs
          /\ lastCheck' = [ran |-> TRUE, cookieBefore |-> cookie, path |-> o.path,
                           marked |-> o.marked, dialog |-> o.dialog,
                           threw |-> o.threw]
    /\ UNCHANGED <<browser, versionTenths, globalsDefined, fields, lastCall, scanVars, replVars, widgetVars>>

\* The cookie goes away: createCookie is given no lifetime, and the user can
\* delete it.
CookieExpires ==
    /\ cookie = COOKIE_VALUE
    /\ cookie' = ""
    /\ UNCHANGED <<browser, versionTenths, globalsDefined, dialogs, lastCheck,
                   fields, lastCall, scanVars, replVars, widgetVars>>

BrowserNext == browserCheck \/ CookieExpires

SpecBrowser == BrowserInit /\ [][BrowserNext]_vars

\* The detected browser is Chrome >= 5 or Firefox >= 3.6.
TestedBrowser ==
    \/ browser = "Chrome" /\ versionTenths >= 50
    \/ browser = "Firefox" /\ versionTenths >= 36

\* C14: with the cookie not yet set, browserCheck opens the warning dialog in
\* every case where the browser is not Chrome >= 5 and not Firefox >= 3.6 (an
\* old Chrome or Firefox, and any other, untested browser); for Chrome >= 5 or
\* Firefox >= 3.6 it opens no dialog and sets no cookie.
C14_WarnsUnlessTested ==
    (lastCheck.ran /\ lastCheck.cookieBefore # COOKIE_VALUE) =>
        IF TestedBrowser
        THEN ~lastCheck.dialog /\ ~lastCheck.marked
        ELSE lastCheck.dialog

\* The last call took one of the two warning paths (lines 28-30 or 36-37).
WarningPath(check) == check.path \in {"older", "untested"}

\* C21: the warning is raised at most once while the cookie persists.  Every
\* run of browserCheck that takes a warning path leaves the cookie set to
\* 'checked', also when building the dialog threw (the cookie is written
\* before the dialog is built); every call made with the cookie present
\* returns without opening a dialog and without touching the cookie; so a
\* dialog is only ever opened by a call that found no cookie and set it.
C21_WarnedAtMostOnce ==
    [][browserCheck =>
         /\ WarningPath(lastCheck') => cookie' = COOKIE_VALUE
         /\ lastCheck'.threw => cookie' = COOKIE_VALUE /\ dialogs' = dialogs
         /\ browserAlreadyChecked(cookie) =>
                /\ dialogs' = dialogs
                /\ cookie' = cookie
                /\ lastCheck'.path = "already"
         /\ dialogs' > dialogs =>
                ~browserAlreadyChecked(cookie) /\ cookie' = COOKIE_VALUE]_vars

\* A warning was shown, and a later call found the cookie and returned.
C21_Witness ==
    /\ lastCheck.ran
    /\ lastCheck.path = "already"
    /\ dialogs = 1
    /\ cookie = COOKIE_VALUE

\* ------------------------------------------------------------------------
\* WeSchemeInteractions: the REPL prompt, its history and runCode.

MaxHistory == 3

\* Sources typed at the prompt.  The reader, the compiler and the evaluator are
\* called by runCode and live outside this file; what they do with each
\* source is given by the operators below.
CodeSamples ==
    {"", "1", "(define x 1)", "x", "(", "(define y 2) (car 1)"}

\* readSchemeExpressions(aSource) throws on an unbalanced source.
ReadThrows(aSource) == aSource = "("

\* The names the program defines and the names it refers to.
DefinedNames(aSource) ==
    CASE aSource = "(define x 1)" -> {"x"}
      [] aSource = "(define y 2) (car 1)" -> {"y"}
      [] OTHER -> {}

UsedNames(aSource) == IF aSource = "x" THEN {"x"} ELSE {}

\* program->compiled-program/pinfo(program, this.pinfo) throws on a name
\* that neither the pinfo nor the program defines.
CompileThrows(aSource, aPinfo) ==
    ~(UsedNames(aSource) \subseteq (aPinfo \cup DefinedNames(aSource)))

\* compiled-program-pinfo(compiledProgram)
compiledPinfo(aSource, aPinfo) == aPinfo \cup DefinedNames(aSource)

\* runToplevel throws on a primitive applied to the wrong kind of value;
\* the definitions of the program are evaluated before it does.
EvalThrows(aSource) == aSource = "(define y 2) (car 1)"

\* val.toWrittenString() of each value the toplevel expressions produce.
WrittenValues(aSource) ==
    CASE aSource = "1" -> <<"1">>
      [] aSource = "x" -> <<"1">>
      [] OTHER -> <<>>

\* err.toString() of what each stage throws.
ErrorText(stage) ==
    CASE stage = "read" -> "read: expected a closing parenthesis"
      [] stage = "compile" -> "compile: name is not defined"
      [] OTHER -> "car: expects a pair"

\* The catch block of runCode: the error's text goes to the interactions.
Caught(stage, aPinfo, aNamespace) ==
    [pinfo |-> aPinfo, namespace |-> aNamespace,
     notes |-> << ErrorText(stage) \o "\n" >>, threw |-> stage,
     escaped |-> FALSE]

\* Variant: the catch block throws the error again after noting it.
runCodeRethrows(aSource, aPinfo, aNamespace) ==
    IF ReadThrows(aSource) THEN
        [Caught("read", aPinfo, aNamespace) EXCEPT !.escaped = TRUE]
    ELSE IF CompileThrows(aSource, aPinfo) THEN
        [Caught("compile", aPinfo, aNamespace) EXCEPT !.escaped = TRUE]
    ELSE IF EvalThrows(aSource) THEN
        [Caught("eval", aPinfo, aNamespace \cup DefinedNames(aSource))
            EXCEPT !.escaped = TRUE]
    ELSE
        [pinfo |-> compiledPinfo(aSource, aPinfo),
         namespace |-> aNamespace \cup DefinedNames(aSource),
         notes |-> [i \in DOMAIN WrittenValues(aSource) |->
                        WrittenValues(aSource)[i] \o "\n"],
         threw |-> "none", escaped |-> FALSE]

\* Variant: this.pinfo assigned right after compiling, before the program
\* is evaluated.
runCodeUpdatesPinfoEarly(aSource, aPinfo, aNamespace) ==
    IF ReadThrows(aSource) THEN Caught("read", aPinfo, aNamespace)
    ELSE IF CompileThrows(aSource, aPinfo) THEN
        Caught("compile", aPinfo, aNamespace)
    ELSE IF EvalThrows(aSource) THEN
        Caught("eval", compiledPinfo(aSource, aPinfo),
               aNamespace \cup DefinedNames(aSource))
    ELSE
        [pinfo |-> compiledPinfo(aSource, aPinfo),
         namespace |-> aNamespace \cup DefinedNames(aSource),
         notes |-> [i \in DOMAIN WrittenValues(aSource) |->
                        WrittenValues(aSource)[i] \o "\n"],
         threw |-> "none", escaped |-> FALSE]

\* runCode(aSource) on the given this.pinfo and this.namespace: the pinfo and
\* the namespace it leaves, the notes it adds to the interactions, the stage
\* that threw ("none" when none did) and whether the exception left runCode.
runCode(aSource, aPinfo, aNamespace) ==
    IF ReadThrows(aSource) THEN Caught("read", aPinfo, aNamespace)
    ELSE IF CompileThrows(aSource, aPinfo) THEN
        Caught("compile", aPinfo, aNamespace)
    ELSE IF EvalThrows(aSource) THEN
        Caught("eval", aPinfo, aNamespace \cup DefinedNames(aSource))
    ELSE
        [pinfo |-> compiledPinfo(aSource, aPinfo),
         namespace |-> aNamespace \cup DefinedNames(aSource),
         notes |-> [i \in DOMAIN WrittenValues(aSource) |->
                        WrittenValues(aSource)[i] \o "\n"],
         threw |-> "none", escaped |-> FALSE]

\* Variant: Up recalls the last entry without taking it off the history.
HistoryUpKeepsEntry(text, entries) ==
    LET h == <<text>> \o entries
    IN [input |-> h[Len(h)], history |-> h]

\* keyCode 38: this.history.unshift(value); value = this.history.pop().
HistoryUp(text, entries) ==
    LET h == <<text>> \o entries
    IN [input |-> h[Len(h)], history |-> SubSeq(h, 1, Len(h) - 1)]

\* keyCode 40: this.history.push(value); value = this.history.shift().
HistoryDown(text, entries) ==
    LET h == Append(entries, text)
    IN [input |-> Head(h), history |-> Tail(h)]

\* The key events kept: the last two, newest last.
Logged(event) ==
    IF Len(keyLog) < 2 THEN Append(keyLog, event) ELSE <<keyLog[2], event>>

KeyEvent(code, ran, r) ==
    [keyCode |-> code, input |-> input, history |-> history, pinfo |-> pinfo,
     ran |-> ran, notes |-> r.notes, threw |-> r.threw, escaped |-> r.escaped]

NothingRun ==
    [notes |-> <<>>, threw |-> "none", escaped |-> FALSE]

ReplInit ==
    TimeZoneIdle /\ BrowserIdle /\ ScanIdle /\ ReplIdle /\ WidgetIdle

\* maybeRunPrompt, keyCode 13.  The statements after runCode are reached only
\* when runCode returns.
KeyEnter ==
    /\ Len(history) < MaxHistory
    /\ LET nextCode == input
           r == runCode(nextCode, pinfo, namespace)
       IN /\ pinfo' = r.pinfo
          /\ namespace' = r.namespace
          /\ history' = IF r.escaped THEN history ELSE Append(history, nextCode)
          /\ input' = IF r.escaped THEN input ELSE ""
          /\ keyLog' = Logged(KeyEvent(13, <<nextCode>>,
                          [r EXCEPT !.notes = << "> " \o nextCode \o "\n" >> \o @]))
    /\ UNCHANGED <<fields, lastCall, browserVars, scanVars, widgetVars>>

\* maybeRunPrompt, keyCode 38.
KeyUp ==
    /\ input' = HistoryUp(input, history).input
    /\ history' = HistoryUp(input, history).history
    /\ keyLog' = Logged(KeyEvent(38, <<>>, NothingRun))
    /\ UNCHANGED <<pinfo, namespace, fields, lastCall, browserVars, scanVars, widgetVars>>

\* maybeRunPrompt, keyCode 40.
KeyDown ==
    /\ input' = HistoryDown(input, history).input
    /\ history' = HistoryDown(input, history).history
    /\ keyLog' = Logged(KeyEvent(40, <<>>, NothingRun))
    /\ UNCHANGED <<pinfo, namespace, fields, lastCall, browserVars, scanVars, widgetVars>>

\* Any other key: maybeRunPrompt returns true and the browser edits the text.
KeyOther(text) ==
    /\ input' = text
    /\ keyLog' = <<>>
    /\ UNCHANGED <<history, pinfo, namespace, fields, lastCall, browserVars,
                   scanVars, widgetVars>>

\* reset(): a new prompt, a new Namespace and a fresh pinfo; the history stays.
reset ==
    /\ input' = ""
    /\ pinfo' = {}
    /\ namespace' = {}
    /\ keyLog' = <<>>
    /\ UNCHANGED <<history, fields, lastCall, browserVars, scanVars, widgetVars>>

ReplNext ==
    \/ KeyEnter
    \/ KeyUp
    \/ KeyDown
    \/ \E text \in CodeSamples : KeyOther(text)
    \/ reset

SpecRepl == ReplInit /\ [][ReplNext]_vars

\* The newest key event, and the codes of the last two.
LastKey == keyLog[Len(keyLog)]

LastTwoKeys(first, second) ==
    /\ Len(keyLog) = 2
    /\ keyLog[1].keyCode = first
    /\ keyLog[2].keyCode = second

\* C22: Up (38) and Down (40) are inverse rotations of the ring made of the
\* input text and the history: Up then Down, and Down then Up, restore the
\* input text and the history list exactly from any state (an empty history
\* included), and neither key changes the history length.
C22_UpDownInverse ==
    /\ (LastTwoKeys(38, 40) \/ LastTwoKeys(40, 38)) =>
           /\ input = keyLog[1].input
           /\ history = keyLog[1].history
    /\ (keyLog # <<>> /\ LastKey.keyCode \in {38, 40}) =>
           Len(history) = Len(LastKey.history)

\* Up then Down on a history of two or more entries, where the Up changed
\* the text.
C22_Witness ==
    /\ LastTwoKeys(38, 40)
    /\ Len(keyLog[1].history) >= 2
    /\ keyLog[2].input # keyLog[1].input
    /\ keyLog[2].history # keyLog[1].history
    /\ input = keyLog[1].input
    /\ history = keyLog[1].history

\* C23: Enter (13) with input text c runs c exactly once, appends c as the
\* last history entry (the length grows by exactly 1, whether or not running
\* c failed) and clears the input; an Up pressed right after it sets the
\* input to c.
C23_EnterRunsOnceAndRecords ==
    /\ (keyLog # <<>> /\ LastKey.keyCode = 13) =>
           /\ LastKey.ran = << LastKey.input >>
           /\ history = Append(LastKey.history, LastKey.input)
           /\ Len(history) = Len(LastKey.history) + 1
           /\ input = ""
    /\ LastTwoKeys(13, 38) => input = keyLog[1].input

\* Enter on a source whose run failed, with earlier entries in the history,
\* then Up.
C23_Witness ==
    /\ LastTwoKeys(13, 38)
    /\ keyLog[1].threw # "none"
    /\ keyLog[1].input # ""
    /\ Len(keyLog[1].history) >= 1
    /\ input = keyLog[1].input

\* C24: runCode never lets an exception escape; when reading, compiling or
\* evaluating throws, the error's text is added to the interactions and
\* this.pinfo keeps the value it had before the call; this.pinfo becomes the
\* compiled program's pinfo only when the whole program ran without throwing.
C24_RunCodeContainsErrors ==
    (keyLog # <<>> /\ LastKey.keyCode = 13) =>
        /\ ~LastKey.escaped
        /\ LastKey.threw # "none" =>
               /\ pinfo = LastKey.pinfo
               /\ LastKey.notes[Len(LastKey.notes)] = ErrorText(LastKey.threw) \o "\n"
        /\ LastKey.threw = "none" =>
               pinfo = compiledPinfo(LastKey.input, LastKey.pinfo)
        /\ pinfo # LastKey.pinfo => LastKey.threw = "none"

\* A program that compiled, with a definition in it, and threw when run,
\* on a pinfo that already held a definition.
C24_Witness ==
    /\ keyLog # <<>>
    /\ LastKey.keyCode = 13
    /\ LastKey.threw = "eval"
    /\ DefinedNames(LastKey.input) # {}
    /\ LastKey.pinfo = {"x"}
    /\ pinfo = {"x"}

\* ------------------------------------------------------------------------
\* The design-recipe widget (initializeWidget).

CharAt(str, i) == SubSeq(str, i, i)

\* /\s/ on the texts used here.
IsSpace(c) == c = " "

\* str.replace(/\s+/g, "")
RECURSIVE WithoutSpaces(_)
WithoutSpaces(str) ==
    IF str = "" THEN ""
    ELSE (IF IsSpace(CharAt(str, 1)) THEN "" ELSE CharAt(str, 1))
             \o WithoutSpaces(SubSeq(str, 2, Len(str)))

RECURSIVE TrimLeft(_)
TrimLeft(str) ==
    IF str # "" /\ IsSpace(CharAt(str, 1))
    THEN TrimLeft(SubSeq(str, 2, Len(str)))
    ELSE str

RECURSIVE TrimRight(_)
TrimRight(str) ==
    IF str # "" /\ IsSpace(CharAt(str, Len(str)))
    THEN TrimRight(SubSeq(str, 1, Len(str) - 1))
    ELSE str

\* str.trim()
trim(str) == TrimRight(TrimLeft(str))

\* str.replace(/\s+/g, ","): every run of spaces becomes one comma.
RECURSIVE SpacesToCommas(_, _)
SpacesToCommas(str, inRun) ==
    IF str = "" THEN ""
    ELSE IF IsSpace(CharAt(str, 1))
         THEN (IF inRun THEN "" ELSE ",")
                  \o SpacesToCommas(SubSeq(str, 2, Len(str)), TRUE)
         ELSE CharAt(str, 1) \o SpacesToCommas(SubSeq(str, 2, Len(str)), FALSE)

\* The pieces str.split(",") gives: one more than the commas.
SplitLength(str) ==
    1 + Cardinality({i \in 1..Len(str) : CharAt(str, i) = ","})

\* countIdentifiers(str): ids = str.trim().replace(/\s+/g, ",").split(",");
\* (ids[0].length > 0) ? ids.length : 0
countIdentifiers(str) ==
    LET ids == SpacesToCommas(trim(str), FALSE)
    IN IF ids # "" /\ CharAt(ids, 1) # "," THEN SplitLength(ids) ELSE 0

\* The depth of parentheses after each prefix of str.
RECURSIVE Depth(_, _)
Depth(str, n) ==
    IF n = 0 THEN 0
    ELSE Depth(str, n - 1)
           + (IF CharAt(str, n) = "(" THEN 1
              ELSE IF CharAt(str, n) = ")" THEN -1 ELSE 0)

\* editor.getTokenizer().hasCompleteExpression(str): the parentheses of str
\* are matched.
hasCompleteExpression(str) ==
    /\ Depth(str, Len(str)) = 0
    /\ \A n \in 1..Len(str) : Depth(str, n) >= 0

\* wellFormed(str): true when the editor has no tokenizer.
wellFormed(str, tokenizer) ==
    IF tokenizer THEN hasCompleteExpression(str) ELSE TRUE

\* str.match(new RegExp("\\(\\s*" + name)): somewhere in str an opening
\* parenthesis, any spaces, and then the name.
MatchesName(str, name) ==
    \E i \in 1..Len(str) :
        /\ CharAt(str, i) = "("
        /\ \E j \in (i + 1)..(Len(str) + 1) :
               /\ \A k \in (i + 1)..(j - 1) : IsSpace(CharAt(str, k))
               /\ j + Len(name) - 1 <= Len(str)
               /\ SubSeq(str, j, j + Len(name) - 1) = name

\* checkContract on the form's values: the error elements it leaves and what
\* it returns.
checkContract(values, errs) ==
    IF Len(WithoutSpaces(values.name)) < 1 THEN
        [errors |-> [errs EXCEPT !.contract_error =
                        "What is the name of your function?"],
         returned |-> "false", enables |-> FALSE]
    ELSE IF countIdentifiers(values.domain) < 1 THEN
        [errors |-> [errs EXCEPT !.contract_error =
                        "What is the domain of your function?"],
         returned |-> "false", enables |-> FALSE]
    ELSE IF countIdentifiers(values.range) # 1 THEN
        [errors |-> [errs EXCEPT !.contract_error =
                        "The range of a function must contain exactly one type"],
         returned |-> "false", enables |-> FALSE]
    ELSE
        [errors |-> [errs EXCEPT !.contract_error = ""],
         returned |-> "true", enables |-> FALSE]

\* checkExample(name, header, body, errorDOM): the text it leaves in errorDOM
\* and what it returns.
checkExample(name, header, body, tokenizer) ==
    IF ~MatchesName(header, name) THEN
        [error |-> "An example header looks like \"(<i>name</i> ...<i>inputs</i>...)\"",
         returned |-> FALSE]
    ELSE IF ~wellFormed(header, tokenizer) THEN
        [error |-> "The header might have mis-matched parentheses, or an unclosed string.",
         returned |-> FALSE]
    ELSE IF Len(body) = 0 THEN
        [error |-> "Fill in the body for this example", returned |-> FALSE]
    ELSE IF ~wellFormed(body, tokenizer) THEN
        [error |-> "The header might have mis-matched parentheses, or an unclosed string.",
         returned |-> FALSE]
    ELSE [error |-> "", returned |-> TRUE]

\* checkExamples: checkContract first, then the two examples in order, the
\* second one checked only when the first one passed.
checkExamples(values, errs, tokenizer) ==
    LET contract == checkContract(values, errs)
        first == checkExample(values.name, values.example1_header,
                              values.example1_body, tokenizer)
        second == checkExample(values.name, values.example2_header,
                               values.example2_body, tokenizer)
    IN IF contract.returned # "true" THEN
           [errors |-> [contract.errors EXCEPT
                           !.example1_error = "<b>Fix your contract first!</b>",
                           !.example2_error = "<b>Fix your contract first!</b>"],
            returned |-> "false", enables |-> FALSE]
       ELSE IF ~first.returned THEN
           [errors |-> [contract.errors EXCEPT
                           !.example1_error = first.error,
                           !.example2_error =
                               "<b>Finish your previous example before starting this one</b>"],
            returned |-> "false", enables |-> FALSE]
       ELSE
           [errors |-> [contract.errors EXCEPT
                           !.example1_error = first.error,
                           !.example2_error = second.error],
            returned |-> IF second.returned THEN "true" ELSE "false",
            enables |-> FALSE]

\* checkDefinition: checkContract, checkExamples, then the header and the body
\* of the definition.  An empty body falls off the end of the function
\* (returns undefined); a body that is not well formed assigns to
\* values.example1_error.innerHTML, and formValues() has no example1_error:
\* that statement throws a TypeError.  Only the last branch enables the
\* design-recipe-insertCode button.
checkDefinition(values, errs, tokenizer) ==
    LET contract == checkContract(values, errs)
        examples == checkExamples(values, contract.errors, tokenizer)
    IN IF contract.returned # "true" THEN
           [errors |-> [contract.errors EXCEPT
                           !.definition_error = "<b>Fix your contract first!</b>"],
            returned |-> "false", enables |-> FALSE]
       ELSE IF examples.returned # "true" THEN
           [errors |-> [examples.errors EXCEPT
                           !.definition_error = "<b>Fix your examples first!</b>"],
            returned |-> "false", enables |-> FALSE]
       ELSE IF ~MatchesName(values.def_header, values.name) THEN
           [errors |-> [examples.errors EXCEPT !.definition_error =
                           "A function header looks like \"(<i>name</i> ...<i>variables</i>...)\". <br/>HINT: Look at your examples if you get stuck. What changes from example to example?"],
            returned |-> "false", enables |-> FALSE]
       ELSE IF ~wellFormed(values.def_header, tokenizer) THEN
           [errors |-> [examples.errors EXCEPT !.definition_error =
                           "The function header might have mis-matched parentheses, or an unclosed string."],
            returned |-> "false", enables |-> FALSE]
       ELSE IF Len(values.def_body) = 0 THEN
           [errors |-> [examples.errors EXCEPT !.definition_error =
                           "Fill in the body for this function"],
            returned |-> "undefined", enables |-> FALSE]
       ELSE IF ~wellFormed(values.def_body, tokenizer) THEN
           [errors |-> examples.errors, returned |-> "threw", enables |-> FALSE]
       ELSE
           [errors |-> [examples.errors EXCEPT !.definition_error = ""],
            returned |-> "true", enables |-> TRUE]

ContractFields == {"name", "domain", "range"}

ExampleFields ==
    {"example1_header", "example1_body", "example2_header", "example2_body"}

DefinitionFields == {"def_header", "def_body"}

\* The texts typed into each field.
FieldSamples ==
    [name |-> {" ", "f"},
     domain |-> {"number"},
     range |-> {"number", "number number"},
     example1_header |-> {"(f 1)", "(f 1"},
     example1_body |-> {"2"},
     example2_header |-> {"(f 2)"},
     example2_body |-> {"3"},
     def_header |-> {"(f x)"},
     def_body |-> {"(+ x 1)", "(+ x 1"}]

\* initializeWidget(editor) has run: the fields are empty and the form is
\* off screen.  The page sets the button's first disabled state and the
\* editor has a tokenizer or not.
WidgetInit ==
    /\ TimeZoneIdle
    /\ BrowserIdle
    /\ ScanIdle
    /\ ReplIdle
    /\ form = EmptyForm
    /\ errors = NoErrors
    /\ insertDisabled \in BOOLEAN
    /\ shown = FALSE
    /\ hasTokenizer \in BOOLEAN
    /\ lastCallback = NoCallback

\* What a check callback leaves: the error elements, the button (only ever
\* set to enabled here) and the record of the call.
Ran(callback, result) ==
    /\ errors' = result.errors
    /\ insertDisabled' = IF result.enables THEN FALSE ELSE insertDisabled
    /\ lastCallback' = [name |-> callback, returned |-> result.returned]

\* showWidget(): disables the button and shows the form; contract_name.focus()
\* runs the field's onFocus callback, checkContract, when the focus moves.
showWidget ==
    /\ shown' = TRUE
    /\ \E focusMoves \in BOOLEAN :
          IF focusMoves
          THEN /\ errors' = checkContract(form, errors).errors
               /\ lastCallback' = [name |-> "checkContract",
                                   returned |-> checkContract(form, errors).returned]
          ELSE /\ errors' = errors
               /\ lastCallback' = [name |-> "showWidget", returned |-> "undefined"]
    /\ insertDisabled' = TRUE
    /\ UNCHANGED <<form, hasTokenizer, fields, lastCall, browserVars, scanVars,
                   replVars>>

\* Typing in the name, domain or range field: these fields have onBlur and
\* onFocus callbacks only.
EditContractField(field, text) ==
    /\ shown
    /\ form' = [form EXCEPT ![field] = text]
    /\ UNCHANGED <<errors, insertDisabled, lastCallback, shown, hasTokenizer,
                   fields, lastCall, browserVars, scanVars, replVars>>

\* Typing in an example field: onChange is checkExamples.
EditExampleField(field, text) ==
    /\ shown
    /\ form' = [form EXCEPT ![field] = text]
    /\ Ran("checkExamples",
           checkExamples([form EXCEPT ![field] = text], errors, hasTokenizer))
    /\ UNCHANGED <<shown, hasTokenizer, fields, lastCall, browserVars, scanVars,
                   replVars>>

\* Typing in the definition's header or body: onChange is checkDefinition.
EditDefinitionField(field, text) ==
    /\ shown
    /\ form' = [form EXCEPT ![field] = text]
    /\ Ran("checkDefinition",
           checkDefinition([form EXCEPT ![field] = text], errors, hasTokenizer))
    /\ UNCHANGED <<shown, hasTokenizer, fields, lastCall, browserVars, scanVars,
                   replVars>>

\* onBlur/onFocus of a contract field.
checkContractCallback ==
    /\ shown
    /\ Ran("checkContract", checkContract(form, errors))
    /\ UNCHANGED <<form, shown, hasTokenizer, fields, lastCall, browserVars,
                   scanVars, replVars>>

\* onFocus of an example field.
checkExamplesCallback ==
    /\ shown
    /\ Ran("checkExamples", checkExamples(form, errors, hasTokenizer))
    /\ UNCHANGED <<form, shown, hasTokenizer, fields, lastCall, browserVars,
                   scanVars, replVars>>

\* onFocus of a definition field.
checkDefinitionCallback ==
    /\ shown
    /\ Ran("checkDefinition", checkDefinition(form, errors, hasTokenizer))
    /\ UNCHANGED <<form, shown, hasTokenizer, fields, lastCall, browserVars,
                   scanVars, replVars>>

\* clearForm() with the example and definition error elements emptied.
ClearedErrors ==
    [errors EXCEPT !.example1_error = "", !.example2_error = "",
                   !.definition_error = ""]

\* hideWidget(): the form moves off screen and clearForm() runs.  clearForm
\* starts by assigning to contract_error.firstChild, a read-only property,
\* in strict code: where that throws, nothing is cleared.  Where it does
\* not, every field is set to '' and the setValue calls run the onChange
\* callbacks of the fields they change (none, checkExamples, or checkExamples
\* and then checkDefinition).  The button is left as it is.
Hidden(callback) ==
    /\ shown' = FALSE
    /\ \E outcome \in {"throws", "quiet", "examples", "definition"} :
          /\ form' = IF outcome = "throws" THEN form ELSE EmptyForm
          /\ errors' =
               CASE outcome = "throws" -> errors
                 [] outcome = "quiet" -> ClearedErrors
                 [] outcome = "examples" ->
                      checkExamples(EmptyForm, ClearedErrors, hasTokenizer).errors
                 [] OTHER ->
                      checkDefinition(EmptyForm,
                          checkExamples(EmptyForm, ClearedErrors, hasTokenizer).errors,
                          hasTokenizer).errors
          /\ lastCallback' =
               [name |-> callback,
                returned |-> IF outcome = "throws" THEN "threw" ELSE "undefined"]
    /\ UNCHANGED <<insertDisabled, hasTokenizer, fields, lastCall, browserVars,
                   scanVars, replVars>>

\* The design-recipe-cancel button.
hideWidget == shown /\ Hidden("hideWidget")

\* The design-recipe-insertCode button, which is clickable only when it is
\* not disabled: injectCode(); hideWidget().  The editor's text is outside
\* this state.
injectCode == shown /\ ~insertDisabled /\ Hidden("injectCode")

WidgetNext ==
    \/ showWidget
    \/ \E field \in ContractFields :
          \E text \in FieldSamples[field] : EditContractField(field, text)
    \/ \E field \in ExampleFields :
          \E text \in FieldSamples[field] : EditExampleField(field, text)
    \/ \E field \in DefinitionFields :
          \E text \in FieldSamples[field] : EditDefinitionField(field, text)
    \/ checkContractCallback
    \/ checkExamplesCallback
    \/ checkDefinitionCallback
    \/ hideWidget
    \/ injectCode

SpecWidget == WidgetInit /\ [][WidgetNext]_vars

\* The form's values pass every check: checkDefinition would return true.
FormValid == checkDefinition(form, errors, hasTokenizer).returned = "true"

\* C25: the insert-code button is enabled only while the form is valid.
\* showWidget disables it, and after any sequence of field edits and
\* checkContract/checkExamples/checkDefinition callbacks that follows, if the
\* button is enabled then the current field values pass the contract check,
\* every example check and the definition's header and body checks.
C25_EnabledOnlyWhileValid ==
    /\ [][showWidget => insertDisabled']_vars
    /\ []((shown /\ ~insertDisabled) => FormValid)

====
